---- MODULE Spec2Model ----
(***************************************************************************)
(* FlickerDistribution (src/js/flicker-distribution.js): the per-cell      *)
(* timing and state model of the "flickering leaves" dissolve, and the     *)
(* frame loop of CanvasIntroController that polls it.                      *)
(*                                                                         *)
(* Number representation.  JavaScript numbers are doubles; the model uses  *)
(* integers:                                                               *)
(*   - elapsed times, stop times, fade start times: whole milliseconds;    *)
(*   - factors in [0,1] (contagionStrength, ...): thousandths (Milli);     *)
(*   - sines, cosines, noise, normalized distance, random draws of         *)
(*     Math.random(): ten-thousandths (Fix);                               *)
(*   - distances: hundredths of a cell (Centi);                            *)
(*   - transparency: numerator over fadeOutDuration, so that               *)
(*     1 - (t - fadeStartTime)/fadeOutDuration is exact (Opaque is 1.0);   *)
(*   - the adjusted stop time: an exact fraction [num, den].               *)
(* Infinity and NaN are the two non-finite doubles the code can produce.   *)
(***************************************************************************)
EXTENDS Integers, Sequences, FiniteSets, TLC

VARIABLES
  width,      \* this.width
  height,     \* this.height
  centerX,    \* this.centerX
  centerY,    \* this.centerY
  pixels,     \* this.pixels[y][x]
  result,     \* what the last getPixelState call returned
  op,         \* the last operation performed on the field, and its cell
  now,        \* the caller's clock: the elapsed time of the last query or frame
  isRunning,     \* CanvasIntroController: this.isRunning
  startTime,     \* this.startTime
  animationId,   \* this.animationId: the requested animation frame, or null
  resizeTimeout, \* this.resizeTimeout: the pending debounce timer, or null
  clock          \* performance.now(), in ms since the controller was built

\* the state of the controller
controller == <<isRunning, startTime, animationId, resizeTimeout, clock>>

vars == <<width, height, centerX, centerY, pixels, result, op, now,
          isRunning, startTime, animationId, resizeTimeout, clock>>

null == 0 - 1

\* no controller drives the field: it is polled directly
NoController ==
  /\ isRunning = FALSE
  /\ startTime = null
  /\ animationId = null
  /\ resizeTimeout = null
  /\ clock = 0

----------------------------------------------------------------------------
(* Effect parameters, FlickerDistribution.constructor *)

totalDuration == 10000
fadeOutDuration == 2000
irregularityFactor == 300
contagionStrength == 100
naturalVariation == 200
borderThickness == 10
contagionWindow == 2000

Milli == 10 * 100
Fix == 100 * 100
Centi == 10 * 10

Infinity == 2 * (10 ^ 9)
NaN == 0 - 2 * (10 ^ 9)

IsFinite(v) == v # Infinity /\ v # NaN

Opaque == fadeOutDuration

Max(a, b) == IF a >= b THEN a ELSE b
Min(a, b) == IF a <= b THEN a ELSE b

----------------------------------------------------------------------------
(* Math.sqrt, Math.sin, Math.cos in fixed point *)

RECURSIVE SqrtSearch(_, _, _)
SqrtSearch(n, lo, hi) ==
  IF lo >= hi THEN lo
  ELSE LET mid == (lo + hi + 1) \div 2
       IN  IF mid * mid <= n THEN SqrtSearch(n, mid, hi)
           ELSE SqrtSearch(n, lo, mid - 1)

\* floor of the square root of n, 0 <= n < 2^31
ISqrt(n) == SqrtSearch(n, 0, 46340)

\* pi in ten-thousandths
Pi == 3 * Fix + 1416
\* Math.sqrt(n) in hundredths, n a whole number: to a hundredth where the
\* product fits 32 bits, to a tenth beyond
SqrtCenti(n) ==
  IF n <= 20 * Fix THEN ISqrt(n * Centi * Centi) ELSE ISqrt(n * Centi) * 10

TwoPi == 2 * Pi
HalfPi == Pi \div 2

\* division rounding to the nearest integer, b > 0
RDiv(a, b) == (a + b \div 2) \div b

RECURSIVE SinSeries(_, _, _, _)
\* the Taylor series of sine: term is the current term, k its degree
SinSeries(x2, term, k, acc) ==
  IF term = 0 \/ k > 13 THEN Max(0 - Fix, Min(Fix, acc))
  ELSE LET next == 0 - RDiv(RDiv(term * x2, Fix), (k + 1) * (k + 2))
       IN  SinSeries(x2, next, k + 2, acc + term)

\* sin(a / Fix) * Fix
Sin(a) ==
  LET r == a % TwoPi
      s == IF r > TwoPi \div 2 THEN r - TwoPi ELSE r
      f == IF s > HalfPi THEN Pi - s
           ELSE IF s < 0 - HalfPi THEN 0 - Pi - s
           ELSE s
  IN  SinSeries(RDiv(f * f, Fix), f, 1, 0)

Cos(a) == Sin(a + HalfPi)

----------------------------------------------------------------------------
(* calculateStopTime and perlinNoise *)

\* perlinNoise(x * 0.02, y * 0.02) * Fix for the cell <<x, y>>: the arguments
\* x*0.02*0.5, x*0.02*1.2, ... are whole ten-thousandths
perlinNoise(x, y) ==
  RDiv(Sin(100 * x) * Cos(60 * y) * 5
         + Sin(240 * x) * Cos(160 * y) * 3
         + Sin(420 * x) * Cos(340 * y) * 2,
       10 * Fix * 3)

\* isEdgePixel with the far edges one cell thinner (> for >=)
isEdgePixelThin(w, h, x, y) ==
  \/ x < borderThickness
  \/ x > w - borderThickness
  \/ y < borderThickness
  \/ y > h - borderThickness

isEdgePixel(w, h, x, y) ==
  \/ x < borderThickness
  \/ x >= w - borderThickness
  \/ y < borderThickness
  \/ y >= h - borderThickness

\* Math.pow(n, 2.5) * Fix for n in ten-thousandths: NaN for a negative base
Pow25(n) ==
  IF n < 0 THEN NaN
  ELSE (((n * n) \div Fix) * ISqrt(n * Fix)) \div Fix

\* steps 1-4 of calculateStopTime, which draw nothing at random:
\* exponentialCurve * Fix, or NaN
exponentialCurve(w, h, cx, cy, x, y) ==
  LET dx == x - cx
      dy == y - cy
      baseDistance == SqrtCenti(dx * dx + dy * dy)
      noiseValue == perlinNoise(x, y)
      irregularDistance ==
        baseDistance + (((noiseValue * irregularityFactor) \div Milli) * (100 * Centi)) \div Fix
      maxDistance == SqrtCenti(w * w + h * h) \div 2
      normalizedDistance == Min((irregularDistance * Fix) \div maxDistance, Fix)
  IN  Pow25(normalizedDistance)

\* Math.max(0, Math.min(totalDuration, v)): NaN goes through both
clampStopTime(v) ==
  IF v = NaN THEN NaN ELSE Max(0, Min(totalDuration, v))

\* step 5 and the clamp: r is the draw of Math.random() in ten-thousandths
stopTimeOf(curve, r) ==
  IF curve = NaN THEN clampStopTime(NaN)
  ELSE LET variation == ((r - Fix \div 2) * naturalVariation) \div Milli
           baseStopTime == ((curve + variation) * totalDuration) \div Fix
       IN  clampStopTime(baseStopTime)

calculateStopTime(w, h, cx, cy, x, y, r) ==
  IF isEdgePixel(w, h, x, y) THEN Infinity
  ELSE stopTimeOf(exponentialCurve(w, h, cx, cy, x, y), r)

----------------------------------------------------------------------------
(* The grid and its cells *)

Cells(w, h) == (0 .. w - 1) \X (0 .. h - 1)

\* the in-bounds cells of the 3x3 block around <<x, y>>, the cell itself excluded
Neighbors(w, h, x, y) ==
  { n \in ((x - 1) .. (x + 1)) \X ((y - 1) .. (y + 1)) :
      /\ n # <<x, y>>
      /\ n[1] >= 0 /\ n[1] < w /\ n[2] >= 0 /\ n[2] < h }

\* One run of Math.random() over initializePixels: for each cell the three
\* draws it consumes, in ten-thousandths: flickerRate, the jitter of
\* calculateStopTime, currentColor.  The centre cell draws its own jitter,
\* the colours alternate with the parity of x + y.
RandomSource(w, h, cx, cy, rate, jc, jn, col) ==
  [y \in 0 .. h - 1 |-> [x \in 0 .. w - 1 |->
     [rate   |-> rate,
      jitter |-> IF x = cx /\ y = cy THEN jc ELSE jn,
      colour |-> IF (x + y) % 2 = 0 THEN col ELSE Fix - 1 - col]]]

initializePixels(w, h, cx, cy, rnd) ==
  [y \in 0 .. h - 1 |-> [x \in 0 .. w - 1 |->
     [isFlickering     |-> TRUE,
      flickerRate      |-> 50 + (rnd[y][x].rate * 100) \div Fix,
      transparency     |-> Opaque,
      stopTime         |-> calculateStopTime(w, h, cx, cy, x, y, rnd[y][x].jitter),
      lastFlickerTime  |-> 0,
      currentColor     |-> IF rnd[y][x].colour > Fix \div 2 THEN 1 ELSE 0,
      hasStartedFading |-> FALSE,
      fadeStartTime    |-> 0]]]

----------------------------------------------------------------------------
(* getNeighborInfluence, updatePixel, getPixelState *)

\* the fraction stoppedNeighbors / totalNeighbors, 0 / 1 without neighbours
getNeighborInfluence(pix, w, h, x, y) ==
  LET nbrs == Neighbors(w, h, x, y)
      stoppedNeighbors == Cardinality({ n \in nbrs : ~pix[n[2]][n[1]].isFlickering })
      totalNeighbors == Cardinality(nbrs)
  IN  IF totalNeighbors > 0
      THEN [num |-> stoppedNeighbors, den |-> totalNeighbors]
      ELSE [num |-> 0, den |-> 1]

\* adjustedStopTime with the influence added (+= for -=)
adjustedStopTimeAdded(pix, w, h, x, y) ==
  LET stopTime == pix[y][x].stopTime
      neighborInfluence == getNeighborInfluence(pix, w, h, x, y)
      den == neighborInfluence.den * Milli
      influenceAmount == neighborInfluence.num * contagionStrength * contagionWindow
  IN  IF IsFinite(stopTime)
      THEN [num |-> stopTime * den + influenceAmount, den |-> den]
      ELSE [num |-> stopTime, den |-> 1]

\* adjustedStopTime without the contagionStrength factor
adjustedStopTimeFull(pix, w, h, x, y) ==
  LET stopTime == pix[y][x].stopTime
      neighborInfluence == getNeighborInfluence(pix, w, h, x, y)
      den == neighborInfluence.den
      influenceAmount == neighborInfluence.num * contagionWindow
  IN  IF IsFinite(stopTime)
      THEN [num |-> stopTime * den - influenceAmount, den |-> den]
      ELSE [num |-> stopTime, den |-> 1]

\* adjustedStopTime as an exact fraction num / den; Infinity and NaN absorb
\* the subtraction
adjustedStopTime(pix, w, h, x, y) ==
  LET stopTime == pix[y][x].stopTime
      neighborInfluence == getNeighborInfluence(pix, w, h, x, y)
      den == neighborInfluence.den * Milli
      influenceAmount == neighborInfluence.num * contagionStrength * contagionWindow
  IN  IF IsFinite(stopTime)
      THEN [num |-> stopTime * den - influenceAmount, den |-> den]
      ELSE [num |-> stopTime, den |-> 1]

\* currentTime >= adjustedStopTime: false against NaN and against Infinity
timeHasArrived(currentTime, adjusted) ==
  /\ IsFinite(adjusted.num)
  /\ currentTime * adjusted.den >= adjusted.num

\* stopCheck re-deriving the flag of a stopped pixel from its schedule
stopCheckRecomputed(pix, w, h, x, y, currentTime) ==
  LET pixel == pix[y][x]
  IN  IF pixel.isFlickering
      THEN IF timeHasArrived(currentTime, adjustedStopTime(pix, w, h, x, y))
           THEN [pixel EXCEPT !.isFlickering = FALSE,
                              !.hasStartedFading = TRUE,
                              !.fadeStartTime = currentTime]
           ELSE pixel
      ELSE [pixel EXCEPT !.isFlickering = currentTime < pixel.stopTime]

\* stopCheck that starts the fade and leaves isFlickering set
stopCheckKeepsFlag(pix, w, h, x, y, currentTime) ==
  LET pixel == pix[y][x]
  IN  IF pixel.isFlickering
         /\ timeHasArrived(currentTime, adjustedStopTime(pix, w, h, x, y))
      THEN [pixel EXCEPT !.hasStartedFading = TRUE,
                         !.fadeStartTime = currentTime]
      ELSE pixel

\* stopCheck starting the fade at the scheduled stop time
stopCheckFadesFromSchedule(pix, w, h, x, y, currentTime) ==
  LET pixel == pix[y][x]
  IN  IF pixel.isFlickering
         /\ timeHasArrived(currentTime, adjustedStopTime(pix, w, h, x, y))
      THEN [pixel EXCEPT !.isFlickering = FALSE,
                         !.hasStartedFading = TRUE,
                         !.fadeStartTime = pixel.stopTime]
      ELSE pixel

\* stopCheck without the isFlickering guard
stopCheckUnguarded(pix, w, h, x, y, currentTime) ==
  LET pixel == pix[y][x]
  IN  IF timeHasArrived(currentTime, adjustedStopTime(pix, w, h, x, y))
      THEN [pixel EXCEPT !.isFlickering = FALSE,
                         !.hasStartedFading = TRUE,
                         !.fadeStartTime = currentTime]
      ELSE pixel

\* stopCheck writing the adjusted stop time back to the cell
stopCheckPersistsAdjusted(pix, w, h, x, y, currentTime) ==
  LET pixel == pix[y][x]
      adjusted == adjustedStopTime(pix, w, h, x, y)
      kept == IF IsFinite(pixel.stopTime)
              THEN [pixel EXCEPT !.stopTime = adjusted.num \div adjusted.den]
              ELSE pixel
  IN  IF pixel.isFlickering /\ timeHasArrived(currentTime, adjusted)
      THEN [kept EXCEPT !.isFlickering = FALSE,
                        !.hasStartedFading = TRUE,
                        !.fadeStartTime = currentTime]
      ELSE kept

\* step 1: stop flickering if the time has arrived
stopCheck(pix, w, h, x, y, currentTime) ==
  LET pixel == pix[y][x]
  IN  IF pixel.isFlickering
         /\ timeHasArrived(currentTime, adjustedStopTime(pix, w, h, x, y))
      THEN [pixel EXCEPT !.isFlickering = FALSE,
                         !.hasStartedFading = TRUE,
                         !.fadeStartTime = currentTime]
      ELSE pixel

\* flickerStep toggling stopped cells too
flickerStepUnguarded(pixel, currentTime) ==
  IF currentTime - pixel.lastFlickerTime >= pixel.flickerRate
  THEN [pixel EXCEPT !.currentColor = 1 - pixel.currentColor,
                     !.lastFlickerTime = currentTime]
  ELSE pixel

\* flickerStep forgetting to record the time of the toggle
flickerStepKeepsTime(pixel, currentTime) ==
  IF pixel.isFlickering
     /\ currentTime - pixel.lastFlickerTime >= pixel.flickerRate
  THEN [pixel EXCEPT !.currentColor = 1 - pixel.currentColor]
  ELSE pixel

\* step 2: toggle the colour while still flickering
flickerStep(pixel, currentTime) ==
  IF pixel.isFlickering
     /\ currentTime - pixel.lastFlickerTime >= pixel.flickerRate
  THEN [pixel EXCEPT !.currentColor = 1 - pixel.currentColor,
                     !.lastFlickerTime = currentTime]
  ELSE pixel

\* fadeStep storing fadeProgress instead of 1 - fadeProgress
fadeStepInverted(pixel, currentTime) ==
  IF pixel.hasStartedFading /\ ~pixel.isFlickering
  THEN [pixel EXCEPT !.transparency =
          Max(0, currentTime - pixel.fadeStartTime)]
  ELSE pixel

\* fadeStep without Math.max(0, ...)
fadeStepUnclamped(pixel, currentTime) ==
  IF pixel.hasStartedFading /\ ~pixel.isFlickering
  THEN [pixel EXCEPT !.transparency =
          Opaque - (currentTime - pixel.fadeStartTime)]
  ELSE pixel

\* step 3: Math.max(0, 1 - fadeProgress), as a numerator over fadeOutDuration
fadeStep(pixel, currentTime) ==
  IF pixel.hasStartedFading /\ ~pixel.isFlickering
  THEN [pixel EXCEPT !.transparency =
          Max(0, Opaque - (currentTime - pixel.fadeStartTime))]
  ELSE pixel

\* the pixel array after updatePixel(x, y, currentTime)
updatePixel(pix, w, h, x, y, currentTime) ==
  [pix EXCEPT ![y][x] =
     fadeStep(flickerStep(stopCheck(pix, w, h, x, y, currentTime), currentTime),
              currentTime)]

\* what getPixelState returns for an updated pixel
pixelState(pixel) ==
  [color        |-> pixel.currentColor,
   transparency |-> pixel.transparency,
   isActive     |-> pixel.isFlickering \/ pixel.transparency > 0]

\* the nested loops of animate: every cell once, row by row, at currentTime
\* isEffectComplete with a strict comparison
isEffectCompleteStrict(currentTime) ==
  currentTime > totalDuration + fadeOutDuration

\* isEffectComplete(currentTime)
isEffectComplete(currentTime) ==
  currentTime >= totalDuration + fadeOutDuration

\* getProgress without the cap at 100
getProgressUncapped(currentTime) ==
  LET totalTime == totalDuration + fadeOutDuration
  IN  (currentTime * 100 * Milli) \div totalTime

\* getProgress(currentTime), in thousandths of a percent
getProgress(currentTime) ==
  LET totalTime == totalDuration + fadeOutDuration
  IN  Min(100 * Milli, (currentTime * 100 * Milli) \div totalTime)

RECURSIVE renderRow(_, _, _, _, _, _)
\* the inner loop, for (let x = ...), of row y from column x on
renderRow(pix, w, h, x, y, currentTime) ==
  IF x >= w \/ y \notin DOMAIN pix THEN pix
  ELSE renderRow(updatePixel(pix, w, h, x, y, currentTime), w, h, x + 1, y, currentTime)

RECURSIVE renderCells(_, _, _, _, _)
\* the outer loop, for (let y = ...), from row y on
renderCells(pix, w, h, y, currentTime) ==
  IF y >= h \/ y \notin DOMAIN pix THEN pix
  ELSE renderCells(renderRow(pix, w, h, 0, y, currentTime), w, h, y + 1, currentTime)

----------------------------------------------------------------------------
(* The state machine: construction, getPixelState, the frame loop, reset *)

\* elapsed times of the queries, in ms
Times == {0, 150, 1000, 3000}

\* grids fields are constructed with: <<width, height, centerX, centerY>>
Grids == { <<23, 23, 11, 11>> }

\* the cells single queries address: the centre, a border cell next to the
\* interior and the grid corner
QueryCells(w, h, cx, cy) ==
  { <<cx, cy>>, <<cx - 2, cy>> } \cap Cells(w, h)

RateDraws == {0}
CentreJitterDraws == {0, 9999}
JitterDraws == {0, 5000}
ColourDraws == {0}

RandomSources(w, h, cx, cy) ==
  { RandomSource(w, h, cx, cy, rate, jc, jn, col) :
      rate \in RateDraws, jc \in CentreJitterDraws, jn \in JitterDraws,
      col \in ColourDraws }

NoResult == [color |-> -1, transparency |-> -1, isActive |-> FALSE]

\* new FlickerDistribution(width, height, centerX, centerY)
Init ==
  \E g \in Grids :
    /\ width = g[1] /\ height = g[2] /\ centerX = g[3] /\ centerY = g[4]
    /\ \E rnd \in RandomSources(g[1], g[2], g[3], g[4]) :
         pixels = initializePixels(g[1], g[2], g[3], g[4], rnd)
    /\ result = NoResult
    /\ op = [name |-> "new", x |-> -1, y |-> -1]
    /\ now = 0
    /\ NoController

\* getPixelState(x, y, currentTime)
GetPixelState(x, y, t) ==
  /\ pixels' = updatePixel(pixels, width, height, x, y, t)
  /\ result' = pixelState(pixels'[y][x])
  /\ op' = [name |-> "getPixelState", x |-> x, y |-> y]
  /\ now' = t
  /\ UNCHANGED <<width, height, centerX, centerY>>
  /\ UNCHANGED controller

\* one frame of animate: getPixelState for every cell at the same currentTime
RenderFrame(t) ==
  /\ pixels' = renderCells(pixels, width, height, 0, t)
  /\ result' = pixelState(pixels'[height - 1][width - 1])
  /\ op' = [name |-> "animate", x |-> -1, y |-> -1]
  /\ now' = t
  /\ UNCHANGED <<width, height, centerX, centerY>>
  /\ UNCHANGED controller

\* reset()
Reset ==
  /\ \E rnd \in RandomSources(width, height, centerX, centerY) :
       pixels' = initializePixels(width, height, centerX, centerY, rnd)
  /\ result' = NoResult
  /\ op' = [name |-> "reset", x |-> -1, y |-> -1]
  /\ now' = 0
  /\ UNCHANGED <<width, height, centerX, centerY>>
  /\ UNCHANGED controller

\* the caller polls with a monotonic clock
Query ==
  \E c \in QueryCells(width, height, centerX, centerY), t \in Times :
    t >= now /\ GetPixelState(c[1], c[2], t)

Frame == \E t \in Times : t >= now /\ RenderFrame(t)

Next == Query \/ Frame \/ Reset

Spec == Init /\ [][Next]_vars

----------------------------------------------------------------------------
(* The centre-cell scenario: a 100x100 field with centre (50, 50) whose centre
   cell alone is queried at 0, 10000 and 12000 ms *)

ScenarioGrid == <<100, 100, 50, 50>>

ScenarioTimes == <<0, 10000, 12000>>

\* draws of the centre cell's jitter: every 5% of the lower half of [0, 1),
\* where the stop time is clamped to 0 ms, the last draw that is clamped and
\* the first that is not, every 0.5% of the upper half, and the largest
ScenarioJitterDraws ==
  { 500 * k : k \in 0 .. 9 } \cup { 4965, 4966, 9999 }
    \cup { 5000 + 50 * k : k \in 0 .. 99 }

\* the field initializePixels builds when every jitter draw is 0.5
ScenarioField ==
  initializePixels(ScenarioGrid[1], ScenarioGrid[2],
                   ScenarioGrid[3], ScenarioGrid[4],
                   RandomSource(ScenarioGrid[1], ScenarioGrid[2],
                                ScenarioGrid[3], ScenarioGrid[4],
                                0, 5000, 5000, 0))

\* the field initializePixels builds when the centre cell's jitter draw is jc:
\* the draw enters the centre cell's stopTime and nothing else
InitCentre ==
  /\ width = ScenarioGrid[1] /\ height = ScenarioGrid[2]
  /\ centerX = ScenarioGrid[3] /\ centerY = ScenarioGrid[4]
  /\ \E jc \in ScenarioJitterDraws :
       pixels = [ScenarioField EXCEPT
                   ![ScenarioGrid[4]][ScenarioGrid[3]].stopTime =
                     calculateStopTime(ScenarioGrid[1], ScenarioGrid[2],
                                       ScenarioGrid[3], ScenarioGrid[4],
                                       ScenarioGrid[3], ScenarioGrid[4], jc)]
  /\ result = NoResult
  /\ op = [name |-> "new", x |-> -1, y |-> -1]
  /\ now = 0
  /\ NoController

\* the next query of the scenario: 1, 2 or 3; 4 when it is over
ScenarioStep ==
  IF op.name = "new" THEN 1
  ELSE IF now = ScenarioTimes[1] THEN 2
  ELSE IF now = ScenarioTimes[2] THEN 3
  ELSE 4

QueryCentre ==
  /\ ScenarioStep <= Len(ScenarioTimes)
  /\ GetPixelState(centerX, centerY, ScenarioTimes[ScenarioStep])

SpecCentre == InitCentre /\ [][QueryCentre]_vars

----------------------------------------------------------------------------
(* The time-only queries, isEffectComplete and getProgress, asked of a field
   in any state a sequence of frames leaves it in *)

ClockTimes ==
  {0, 1, 3000, 6000, 9000, 10000, 11999, 12000, 12001, 15000, 20000}

\* isEffectComplete(t): reads no cell and changes nothing
IsEffectComplete(t) ==
  /\ result' = isEffectComplete(t)
  /\ op' = [name |-> "isEffectComplete", x |-> -1, y |-> -1, t |-> t]
  /\ UNCHANGED <<width, height, centerX, centerY, pixels, now>>
  /\ UNCHANGED controller

\* getProgress(t): reads no cell and changes nothing
GetProgress(t) ==
  /\ result' = getProgress(t)
  /\ op' = [name |-> "getProgress", x |-> -1, y |-> -1, t |-> t]
  /\ UNCHANGED <<width, height, centerX, centerY, pixels, now>>
  /\ UNCHANGED controller

AskComplete == \E t \in ClockTimes : IsEffectComplete(t)

AskProgress == \E t \in ClockTimes : GetProgress(t)

NextClock == Frame \/ AskComplete \/ AskProgress

SpecClock == Init /\ [][NextClock]_vars

----------------------------------------------------------------------------
(* A tall field, new FlickerDistribution(21, 96, 10, 85): its only interior
   cells are those of column 10, and the noise at its centre cell (10, 85)
   is negative. *)

TallGrid == <<21, 96, 10, 85>>

\* the fields initializePixels can build on the tall grid
TallFields ==
  { initializePixels(TallGrid[1], TallGrid[2], TallGrid[3], TallGrid[4],
                     RandomSource(TallGrid[1], TallGrid[2],
                                  TallGrid[3], TallGrid[4], 0, 5000, jn, 0)) :
      jn \in JitterDraws }

\* new FlickerDistribution(21, 96, 10, 85)
InitTall ==
  /\ width = TallGrid[1] /\ height = TallGrid[2]
  /\ centerX = TallGrid[3] /\ centerY = TallGrid[4]
  /\ pixels \in TallFields
  /\ result = NoResult
  /\ op = [name |-> "new", x |-> -1, y |-> -1]
  /\ now = 0
  /\ NoController

\* reset() of the tall field
ResetTall ==
  /\ pixels' \in TallFields
  /\ result' = NoResult
  /\ op' = [name |-> "reset", x |-> -1, y |-> -1]
  /\ now' = 0
  /\ UNCHANGED <<width, height, centerX, centerY>>
  /\ UNCHANGED controller

NextTall == Query \/ Frame \/ ResetTall

SpecTall == InitTall /\ [][NextTall]_vars

----------------------------------------------------------------------------
(* The dissolve left to run: frame after frame, every cell queried at each,
   the elapsed time growing from one frame to the next *)

\* the elapsed times of the frames; a frame may come one time late
TickTimes == <<150, 1000, 3000, 6000, 10000, 12000, 14000, 16000>>

\* the times of TickTimes strictly between two elapsed times
TicksBetween(a, b) ==
  { i \in 1 .. Len(TickTimes) : a < TickTimes[i] /\ TickTimes[i] < b }

\* the i-th time may be that of the next frame: it is later than the last
\* frame and skips at most one of TickTimes
TickAllowed(i) ==
  /\ TickTimes[i] > now
  /\ Cardinality(TicksBetween(now, TickTimes[i])) <= 1

\* the next frame
Tick ==
  \E i \in 1 .. Len(TickTimes) :
    TickAllowed(i) /\ RenderFrame(TickTimes[i])

\* what a frame does to the clock
ClockAdvance ==
  \E i \in 1 .. Len(TickTimes) :
    TickAllowed(i) /\ now' = TickTimes[i]

InitDissolve == Init \/ InitTall

\* the frames keep coming: while a later frame time is left, the elapsed
\* time eventually advances
SpecDissolve == InitDissolve /\ [][Tick]_vars /\ WF_now(ClockAdvance)

----------------------------------------------------------------------------
(* CanvasIntroController: the frame loop and the events that start, stop and
   re-initialize it.  clock is performance.now(); now is the elapsed time of
   the last frame polled from the current field, 0 for a new field. *)

\* the readings of performance.now() at which something happens
WallTimes == {150, 1000, 12000}

\* the draws of Math.random() behind the fields the controller builds
ControllerSources(w, h, cx, cy) ==
  { RandomSource(w, h, cx, cy, 0, 9999, jn, 0) : jn \in JitterDraws }

\* the handle requestAnimationFrame returns
requested == 1

\* the delay of the resize debounce timer
resizeDelay == 100

\* animate() while running, on the field pix, with start time st
Animate(pix, st) ==
  LET currentTime == clock - st
  IN  /\ pixels' = renderCells(pix, width, height, 0, currentTime)
      /\ result' = pixelState(pixels'[height - 1][width - 1])
      /\ now' = currentTime
      /\ IF isEffectComplete(currentTime)
         THEN isRunning' = FALSE /\ animationId' = null
         ELSE isRunning' = TRUE /\ animationId' = requested

\* new CanvasIntroController(): init() builds the field and calls start()
InitController ==
  \E g \in Grids :
    /\ width = g[1] /\ height = g[2] /\ centerX = g[3] /\ centerY = g[4]
    /\ \E rnd \in ControllerSources(g[1], g[2], g[3], g[4]) :
         pixels = renderCells(initializePixels(g[1], g[2], g[3], g[4], rnd),
                              g[1], g[2], 0, 0)
    /\ result = pixelState(pixels[g[2] - 1][g[1] - 1])
    /\ op = [name |-> "start", x |-> -1, y |-> -1]
    /\ now = 0
    /\ isRunning = TRUE
    /\ startTime = 0
    /\ animationId = requested
    /\ resizeTimeout = null
    /\ clock = 0

\* time passes
PassTime ==
  /\ \E t \in WallTimes : t > clock /\ clock' = t
  /\ UNCHANGED <<width, height, centerX, centerY, pixels, result, op, now>>
  /\ UNCHANGED <<isRunning, startTime, animationId, resizeTimeout>>

\* the requested animation frame arrives: animate()
AnimationFrame ==
  /\ animationId # null
  /\ isRunning
  /\ Animate(pixels, startTime)
  /\ op' = [name |-> "animate", x |-> -1, y |-> -1]
  /\ UNCHANGED <<width, height, centerX, centerY>>
  /\ UNCHANGED <<startTime, resizeTimeout, clock>>

\* start()
Start ==
  /\ ~isRunning
  /\ startTime' = clock
  /\ Animate(pixels, clock)
  /\ op' = [name |-> "start", x |-> -1, y |-> -1]
  /\ UNCHANGED <<width, height, centerX, centerY>>
  /\ UNCHANGED <<resizeTimeout, clock>>

\* stop()
Stop ==
  /\ isRunning' = FALSE
  /\ animationId' = null
  /\ UNCHANGED <<width, height, centerX, centerY, pixels, result, op, now>>
  /\ UNCHANGED <<startTime, resizeTimeout, clock>>

\* a click on the skip button: stop() and hideCanvas()
SkipClick ==
  /\ isRunning' = FALSE
  /\ animationId' = null
  /\ UNCHANGED <<width, height, centerX, centerY, pixels, result, op, now>>
  /\ UNCHANGED <<startTime, resizeTimeout, clock>>

\* a resize event: handleResize() restarts the debounce timer
HandleResize ==
  /\ resizeTimeout' = clock + resizeDelay
  /\ UNCHANGED <<width, height, centerX, centerY, pixels, result, op, now>>
  /\ UNCHANGED <<isRunning, startTime, animationId, clock>>

\* the debounce timer fires: a new field, and a new start time if running
ResizeTimer ==
  /\ resizeTimeout # null
  /\ clock >= resizeTimeout
  /\ \E g \in Grids :
       /\ width' = g[1] /\ height' = g[2]
       /\ centerX' = g[3] /\ centerY' = g[4]
       /\ \E rnd \in ControllerSources(g[1], g[2], g[3], g[4]) :
            pixels' = initializePixels(g[1], g[2], g[3], g[4], rnd)
  /\ startTime' = IF isRunning THEN clock ELSE startTime
  /\ resizeTimeout' = null
  /\ result' = NoResult
  /\ now' = 0
  /\ op' = [name |-> "resize", x |-> -1, y |-> -1]
  /\ UNCHANGED <<isRunning, animationId, clock>>

\* restart(): stop(), flicker.reset(), start()
Restart ==
  /\ \E rnd \in ControllerSources(width, height, centerX, centerY) :
       Animate(initializePixels(width, height, centerX, centerY, rnd), clock)
  /\ startTime' = clock
  /\ op' = [name |-> "restart", x |-> -1, y |-> -1]
  /\ UNCHANGED <<width, height, centerX, centerY>>
  /\ UNCHANGED <<resizeTimeout, clock>>

NextController ==
  \/ PassTime
  \/ AnimationFrame
  \/ Start
  \/ Stop
  \/ SkipClick
  \/ HandleResize
  \/ ResizeTimer
  \/ Restart

SpecController == InitController /\ [][NextController]_vars

----------------------------------------------------------------------------
(* Properties *)

GridCells == Cells(width, height)

Px(c) == pixels[c[2]][c[1]]

Stopped(c) == ~Px(c).isFlickering

StoppedNeighbors(c) ==
  { n \in Neighbors(width, height, c[1], c[2]) : Stopped(n) }

IsQueryOf(c) == op = [name |-> "getPixelState", x |-> c[1], y |-> c[2]]

\* a cell fewer than borderThickness cells away from some edge
NearEdge(c) ==
  \/ c[1] < borderThickness \/ width - 1 - c[1] < borderThickness
  \/ c[2] < borderThickness \/ height - 1 - c[2] < borderThickness

C2_NoUnstopping ==
  [][op'.name # "reset" =>
       \A c \in GridCells :
         ~Px(c).isFlickering => ~pixels'[c[2]][c[1]].isFlickering]_vars

\* a cell that stopped in an earlier query has just been queried again
C2_Witness ==
  \E c \in GridCells :
    /\ IsQueryOf(c)
    /\ Stopped(c)
    /\ Px(c).fadeStartTime < now

\* C3: once a cell has started fading, no query and no frame (their elapsed
\* times non-decreasing) raises its transparency; only reset() restores 1.
C3_OpacityNonIncreasing ==
  [][op'.name # "reset" =>
       \A c \in GridCells :
         Px(c).hasStartedFading =>
           pixels'[c[2]][c[1]].transparency <= Px(c).transparency]_vars

\* a fading cell has just been queried again and is part-way through the fade
C3_Witness ==
  \E c \in GridCells :
    /\ IsQueryOf(c)
    /\ Px(c).hasStartedFading
    /\ Px(c).fadeStartTime < now
    /\ Px(c).transparency > 0
    /\ Px(c).transparency < Opaque

\* C8: in every reachable state every cell satisfies
\* hasStartedFading => ~isFlickering.
C8_FadingImpliesStopped ==
  \A c \in GridCells : Px(c).hasStartedFading => ~Px(c).isFlickering

\* after a reset and a frame, some cell has started fading
C8_Witness ==
  /\ op.name = "animate"
  /\ \E c \in GridCells : Px(c).hasStartedFading /\ Px(c).fadeStartTime = now

\* C9: every returned state has color in {0, 1}, transparency in [0, 1]
\* and isActive = (isFlickering or transparency > 0); the cells' own colour
\* and transparency stay in those ranges.
C9_OutputRanges ==
  /\ \A c \in GridCells :
       /\ Px(c).currentColor \in {0, 1}
       /\ Px(c).transparency >= 0
       /\ Px(c).transparency <= Opaque
  /\ \A c \in GridCells :
       IsQueryOf(c) =>
         /\ result.color \in {0, 1}
         /\ result.color = Px(c).currentColor
         /\ result.transparency >= 0
         /\ result.transparency <= Opaque
         /\ result.transparency = Px(c).transparency
         /\ result.isActive <=> (Px(c).isFlickering \/ result.transparency > 0)

\* a query has returned a fully faded, inactive cell
C9_Witness ==
  \E c \in GridCells :
    /\ IsQueryOf(c)
    /\ result.transparency = 0
    /\ ~result.isActive

\* C10: hasStartedFading and fadeStartTime change only in the query that
\* switches isFlickering from true to false, which sets fadeStartTime to its
\* elapsed time; that query always sets them; no later query changes them.
C10_FadeStartSetOnce ==
  [][op'.name # "reset" =>
       \A c \in GridCells :
         LET old == Px(c)
             new == pixels'[c[2]][c[1]]
             switches == old.isFlickering /\ ~new.isFlickering
         IN  /\ switches =>
                  new.hasStartedFading /\ new.fadeStartTime = now'
             /\ ~switches =>
                  /\ new.hasStartedFading = old.hasStartedFading
                  /\ new.fadeStartTime = old.fadeStartTime]_vars

\* a cell that stopped at a positive time has been queried at a later time
\* and still carries the time it stopped at
C10_Witness ==
  \E c \in GridCells :
    /\ IsQueryOf(c)
    /\ Stopped(c)
    /\ Px(c).fadeStartTime > 0
    /\ Px(c).fadeStartTime < now
    /\ Px(c).transparency = 0

\* C5: a query of a flickering cell with a finite stop time stops it exactly
\* when elapsed >= stopTime - (stopped / total) * contagionStrength * 2000,
\* the neighbours counted before the query.  That threshold lies in
\* [stopTime - contagionStrength * 2000, stopTime], the lower end reached with
\* all 8 neighbours stopped: a query or frame at elapsed >= stopTime always
\* stops the cell, one at elapsed < stopTime - contagionStrength * 2000 never.
C5_ContagionBound ==
  [][/\ op'.name = "getPixelState" =>
          LET c == <<op'.x, op'.y>>
              s == Px(c).stopTime
              n == Cardinality(Neighbors(width, height, c[1], c[2]))
              k == Cardinality(StoppedNeighbors(c))
              stops == ~pixels'[c[2]][c[1]].isFlickering
          IN  (Px(c).isFlickering /\ IsFinite(s) /\ n > 0) =>
                /\ stops <=>
                     now' * n * Milli >=
                       s * n * Milli - k * contagionStrength * 2000
                /\ k = 8 =>
                     (stops <=> now' * Milli >= s * Milli - contagionStrength * 2000)
     /\ op'.name \in {"getPixelState", "animate"} =>
          \A c \in GridCells :
            (/\ op'.name = "getPixelState" => c = <<op'.x, op'.y>>
             /\ Px(c).isFlickering
             /\ IsFinite(Px(c).stopTime)) =>
              /\ now' >= Px(c).stopTime => ~pixels'[c[2]][c[1]].isFlickering
              /\ now' * Milli < Px(c).stopTime * Milli - contagionStrength * 2000 =>
                   pixels'[c[2]][c[1]].isFlickering]_vars

\* a cell whose 8 neighbours had all stopped has just been stopped by a query
\* earlier than its scheduled stop time
C5_Witness ==
  \E c \in GridCells :
    /\ IsQueryOf(c)
    /\ Stopped(c)
    /\ Px(c).fadeStartTime = now
    /\ now < Px(c).stopTime
    /\ Cardinality(StoppedNeighbors(c)) = 8

snapshotTick(pix, w, h, currentTime) ==
  [y \in 0 .. h - 1 |-> [x \in 0 .. w - 1 |->
     updatePixel(pix, w, h, x, y, currentTime)[y][x]]]

\* C4: tick order-independence: in a frame every cell's neighbour influence
\* is evaluated against the isFlickering flags of the start of the tick, so
\* the frame leaves every cell as the update from the tick's start leaves it
\* (a cell stopping during the tick is not seen as stopped in that tick).
C4_TickOrderIndependent ==
  [][op'.name = "animate" =>
       pixels' = snapshotTick(pixels, width, height, now')]_vars

CentrePixel == pixels[centerY][centerX]

\* C7 as claimed: the centre cell of the 100x100 field, queried at 0, is
\* flickering with transparency 1; queried next at 10000 it has stopped,
\* with transparency strictly between 0 and 1 and isActive; queried next at
\* 12000 it has transparency 0 and is inactive.
C7_CentreScenario ==
  op.name = "getPixelState" =>
    /\ now = 0 =>
         CentrePixel.isFlickering /\ result.transparency = Opaque
    /\ now = 10000 =>
         /\ ~CentrePixel.isFlickering
         /\ result.transparency > 0
         /\ result.transparency < Opaque
         /\ result.isActive
    /\ now = 12000 =>
         result.transparency = 0 /\ ~result.isActive

\* C7 amended: at 0 the query returns transparency 1 and isActive, and the
\* cell still flickers exactly when its stop time is positive; at 10000 the
\* cell has stopped, with transparency 1 and isActive if it stopped in that
\* query, with transparency 0 and inactive if it had stopped at 0; at 12000
\* transparency is 0 and the cell inactive.
C7_CentreScenarioAmended ==
  op.name = "getPixelState" =>
    /\ now = 0 =>
         /\ result.transparency = Opaque
         /\ result.isActive
         /\ CentrePixel.isFlickering <=> CentrePixel.stopTime > 0
    /\ now = 10000 =>
         /\ ~CentrePixel.isFlickering
         /\ CentrePixel.stopTime > 0 =>
              /\ CentrePixel.fadeStartTime = 10000
              /\ result.transparency = Opaque
              /\ result.isActive
         /\ CentrePixel.stopTime = 0 =>
              /\ CentrePixel.fadeStartTime = 0
              /\ result.transparency = 0
              /\ ~result.isActive
    /\ now = 12000 =>
         result.transparency = 0 /\ ~result.isActive

\* the second query of the scenario has just stopped the centre cell, which
\* is returned fully opaque
C7_Witness ==
  /\ op = [name |-> "getPixelState", x |-> 50, y |-> 50]
  /\ width = 100 /\ height = 100
  /\ now = 10000
  /\ ~CentrePixel.isFlickering
  /\ CentrePixel.fadeStartTime = 10000
  /\ result.transparency = Opaque

\* C11: no getPixelState call and no frame changes the stopTime or the
\* flickerRate of any cell: the neighbour-influence reduction is not written
\* back to the cell.
C11_StopTimeNotPersisted ==
  [][op'.name # "reset" =>
       \A c \in GridCells :
         /\ pixels'[c[2]][c[1]].stopTime = Px(c).stopTime
         /\ pixels'[c[2]][c[1]].flickerRate = Px(c).flickerRate]_vars

\* a cell with a positive stop time and stopped neighbours has just been
\* queried before its reduced threshold and is still flickering
C11_Witness ==
  \E c \in GridCells :
    /\ IsQueryOf(c)
    /\ ~Stopped(c)
    /\ IsFinite(Px(c).stopTime)
    /\ StoppedNeighbors(c) # {}
    /\ now > 0

\* C12: isEffectComplete(t) is false for every t below totalDuration +
\* fadeOutDuration = 12000 ms and true for every t from 12000 ms on, whatever
\* the cells of the field are doing.
C12_CompleteAtTotalTime ==
  op.name = "isEffectComplete" =>
    /\ totalDuration + fadeOutDuration = 12000
    /\ op.t < 12000 => result = FALSE
    /\ op.t >= 12000 => result = TRUE

\* isEffectComplete(12000) has just answered true for a field in which an
\* interior cell is still flickering
C12_Witness ==
  /\ op.name = "isEffectComplete"
  /\ op.t = 12000
  /\ result = TRUE
  /\ \E c \in GridCells : ~NearEdge(c) /\ Px(c).isFlickering

\* C13: getProgress(0) = 0, getProgress(12000) = 100, every result for
\* t >= 0 lies in [0, 100] and is 100 from 12000 ms on, and getProgress is
\* non-decreasing: no smaller argument gives more than the call just made and
\* no larger argument gives less.
C13_ProgressBoundedMonotone ==
  op.name = "getProgress" =>
    /\ result >= 0 /\ result <= 100 * Milli
    /\ op.t = 0 => result = 0
    /\ op.t >= totalDuration + fadeOutDuration => result = 100 * Milli
    /\ \A u \in ClockTimes :
         /\ u <= op.t => getProgress(u) <= result
         /\ u >= op.t => getProgress(u) >= result

\* getProgress has just been asked past the total time and answered 100
C13_Witness ==
  /\ op.name = "getProgress"
  /\ op.t > totalDuration + fadeOutDuration
  /\ result = 100 * Milli

\* C14: every interior (non-border) cell has a stop time within
\* [0, totalDuration], whatever its noise value and its jitter draw.
C14_InteriorStopTimeInRange ==
  \A c \in GridCells :
    ~NearEdge(c) =>
      Px(c).stopTime >= 0 /\ Px(c).stopTime <= totalDuration

\* C15: reset() returns the field to an initial state: width and height are
\* unchanged, every cell flickers again with transparency 1, no fade started,
\* lastFlickerTime 0 and fadeStartTime 0, border cells have stop time
\* +Infinity and interior cells a stop time within [0, totalDuration].
C15_ResetRestoresInitial ==
  [][op'.name = "reset" =>
       /\ width' = width /\ height' = height
       /\ \A c \in GridCells :
            LET p == pixels'[c[2]][c[1]]
            IN  /\ p.isFlickering
                /\ p.transparency = Opaque
                /\ ~p.hasStartedFading
                /\ p.lastFlickerTime = 0
                /\ p.fadeStartTime = 0
                /\ NearEdge(c) => p.stopTime = Infinity
                /\ ~NearEdge(c) =>
                     p.stopTime >= 0 /\ p.stopTime <= totalDuration]_vars

\* the cell no longer flickers, is fully transparent and inactive
Vanished(c) ==
  /\ ~Px(c).isFlickering
  /\ Px(c).transparency = 0
  /\ ~pixelState(Px(c)).isActive

\* C16: when the frames keep coming with growing elapsed times, every
\* interior cell eventually stops flickering, fades to transparency 0 and is
\* inactive, and stays so from then on.
C16_InteriorEventuallyVanishes ==
  <>[](\A c \in GridCells : ~NearEdge(c) => Vanished(c))

\* the cell is visited by the step: the queried cell, or any cell of a frame
Visited(c) ==
  \/ op'.name = "animate"
  \/ op'.name = "getPixelState" /\ op'.x = c[1] /\ op'.y = c[2]

\* C17: a query flips the colour of the cell and sets lastFlickerTime to the
\* query time exactly when the cell is still flickering after the stop check
\* of that query and elapsed - lastFlickerTime >= flickerRate; in every
\* other case, the query that stops the cell and every query of a stopped
\* cell included, colour and lastFlickerTime are unchanged.
C17_ToggleIffFlickeringAndDue ==
  [][op'.name # "reset" =>
       \A c \in GridCells :
         LET p == Px(c)
             q == pixels'[c[2]][c[1]]
         IN  IF Visited(c) /\ q.isFlickering
                /\ now' - p.lastFlickerTime >= p.flickerRate
             THEN /\ q.currentColor = 1 - p.currentColor
                  /\ q.lastFlickerTime = now'
             ELSE /\ q.currentColor = p.currentColor
                  /\ q.lastFlickerTime = p.lastFlickerTime]_vars

\* an interior cell toggled in an earlier query has just been stopped by a
\* query more than flickerRate later, which left its lastFlickerTime alone
C17_Witness ==
  \E c \in GridCells :
    /\ IsQueryOf(c)
    /\ Stopped(c)
    /\ Px(c).fadeStartTime = now
    /\ Px(c).lastFlickerTime > 0
    /\ now - Px(c).lastFlickerTime >= Px(c).flickerRate

\* C19: getPixelState(x, y, t) called again with the same t right after the
\* first call returns the same state and changes no field of any cell: the
\* toggle or the stop of the first call is not repeated.
C19_RepeatQueryIdempotent ==
  [][(op.name = "getPixelState" /\ op' = op /\ now' = now) =>
       (pixels' = pixels /\ result' = result)]_vars

\* a query has just toggled a cell that still flickers; the same query can
\* be repeated at once
C19_Witness ==
  \E c \in GridCells :
    /\ IsQueryOf(c)
    /\ ~Stopped(c)
    /\ now > 0
    /\ Px(c).lastFlickerTime = now
    /\ result.color = Px(c).currentColor
    /\ now \in Times

\* C18: after the frame whose elapsed time makes isEffectComplete true, all
\* cells having been queried at every frame, every interior cell has
\* transparency 0 and is inactive.
C18_CompleteImpliesVanished ==
  (op.name = "animate" /\ isEffectComplete(now)) =>
    \A c \in GridCells :
      ~NearEdge(c) =>
        Px(c).transparency = 0 /\ ~pixelState(Px(c)).isActive

\* no cell carries a time stamp or a fade: the field is as initializePixels
\* and a frame at elapsed time 0 leave it
FreshlyPolled(pix) ==
  \A c \in GridCells :
    /\ pix[c[2]][c[1]].lastFlickerTime = 0
    /\ pix[c[2]][c[1]].fadeStartTime = 0
    /\ pix[c[2]][c[1]].transparency = Opaque

\* C20: the elapsed times the controller passes to a field never decrease
\* from one frame to the next while the field is not re-initialized, and
\* whenever the controller sets startTime anew the field it polls from then
\* on is freshly initialized.
C20_ControllerClockMonotone ==
  [][/\ op'.name \in {"animate", "start"} => now' >= now
     /\ startTime' # startTime => FreshlyPolled(pixels')]_vars

====
